---------------------------- MODULE Spec2Model ----------------------------
(***************************************************************************)
(* ztask: the task store (src/src/tasklist.rs) as a state machine.         *)
(*                                                                         *)
(* One session is  TaskList::new (load + wake pass)  ->  any number of     *)
(* store operations  ->  Drop (save).  Sessions follow one another on the  *)
(* same backing file.  A Rust panic ends the session: the stack unwinds    *)
(* and Drop still saves what the store holds at that moment.               *)
(***************************************************************************)
EXTENDS Integers, Sequences, FiniteSets, TLC

(***************************************************************************)
(* Bounds                                                                  *)
(***************************************************************************)
\* length of an id (the program's ids have 32 hex characters)
IdLen == 2
\* at most this many tasks are in the store at once
MaxTasks == 2
\* the clock runs from 0 to MaxTime
MaxTime == 1
\* at most this many store calls are made in one run
MaxCalls == 4
\* the same, in a run that has the edit command
MaxEditCalls == 3
\* the same, in a run that starts with three tasks, one of them blocked
MaxUnblockCalls == 3
\* the same, in a run of the command line that starts with two tasks
MaxCliCalls == 2
\* the same, in a first run
MaxFirstRunCalls == 3
\* the same, for two invocations together
MaxRaceCalls == 2
\* at most this many add commands are run
MaxAddCalls == 2
\* an add command has at most this many names
MaxNames == 2
\* the longest string of DurationAlphabet given to simple_duration::parse
MaxDurationLen == 3
\* at most this many commands with no task id are run
MaxDefaultCalls == 1

\* the characters an id is made of
IdChars == {1, 2}
\* the task ids
Ids == [1..IdLen -> IdChars]
\* the prefixes a caller may pass: every string up to the length of an id,
\* and every id with one more character appended
Prefixes ==
    UNION {[1..n -> IdChars] : n \in 0..IdLen} \cup {Append(id, 1) : id \in Ids}
\* the duration strings a caller may pass to suspend_task
Durations == {"0", "1s", "-1s", "bad"}
\* summaries of added tasks
Summaries == {"s"}
\* what an edited task may carry
EditIds == {id \in Ids : id[1] = 1}
EditSummaries == {"s", "e"}
EditBlockedBy == {<<>>, <<[i \in 1..IdLen |-> 1]>>}

(***************************************************************************)
(* Task and TaskStatus                                                     *)
(***************************************************************************)
Active == "active"
Backlog == "backlog"
Blocked == "blocked"
Completed == "completed"
Sleeping == "sleeping"
TaskStatus == {Active, Backlog, Blocked, Completed, Sleeping}

\* Option<DateTime>: None is the empty set, Some(x) is {x}
None == {}
Some(x) == {x}

DefaultPriority == 3

\* Task::new(summary, category, is_interrupt), with the id and the clock
\* value that Uuid::new_v4 and Local::now return
TaskNew(id, summary, category, is_interrupt, clock) ==
    [ id         |-> id,
      summary    |-> summary,
      details    |-> "",
      priority   |-> DefaultPriority,
      category   |-> category,
      created_at |-> clock,
      status     |-> IF is_interrupt THEN Active ELSE Backlog,
      blocked_by |-> <<>>,
      wake_at    |-> None ]

\* the ids held by a blocked_by deque
Elems(blocked_by) == {blocked_by[i] : i \in 1..Len(blocked_by)}

\* block_on with the bug: the id is pushed even when it is already there
block_on_push_always(task, blocker_id) ==
    [task EXCEPT !.blocked_by = Append(@, blocker_id), !.status = Blocked]

\* Task::block_on(blocker_id): the id joins blocked_by unless it is already
\* there, and the task becomes Blocked
block_on(task, blocker_id) ==
    [task EXCEPT !.blocked_by = IF blocker_id \in Elems(@) THEN @
                                ELSE Append(@, blocker_id),
                 !.status = Blocked]

\* what the editor can leave in the temporary file: text that does not parse
\* as a Task, or a Task
Unparsable == [parses |-> FALSE]
Parsed(task) == [parses |-> TRUE, task |-> task]

\* Task::update_from(other): assert_eq!(self.id, other.id), then the copied
\* fields
update_from(self, other) ==
    IF self.id # other.id THEN [panic |-> TRUE, task |-> self]
    ELSE [panic |-> FALSE,
          task  |-> [self EXCEPT !.summary = other.summary,
                                 !.details = other.details,
                                 !.category = other.category,
                                 !.status = other.status,
                                 !.blocked_by = other.blocked_by]]

\* invoke_editor with the bug: text that does not parse gives an emptied task
invoke_editor_or_default(self, updates) ==
    LET updated_task == IF updates.parses THEN updates.task
                        ELSE [self EXCEPT !.summary = "", !.status = Backlog,
                                          !.blocked_by = <<>>]
    IN  update_from(self, updated_task)

\* Task::invoke_editor, given what the editor wrote back:
\* serde_json::from_str(&updates).unwrap_or(self.clone()), then update_from
invoke_editor(self, updates) ==
    LET updated_task == IF updates.parses THEN updates.task ELSE self
    IN  update_from(self, updated_task)

(***************************************************************************)
(* The order of tasks (Ord for Task) and the sorted view of a heap         *)
(***************************************************************************)
\* the rank of a status in the order
StatusRank(status) ==
    CASE status = Active    -> 0
      [] status = Backlog   -> 1
      [] status = Blocked   -> 2
      [] status = Sleeping  -> 3
      [] status = Completed -> 4

\* Ordering::Less, Equal, Greater as -1, 0, 1
Compare(x, y) == IF x < y THEN -1 ELSE IF x > y THEN 1 ELSE 0

\* Ordering::then: the first comparison unless it is Equal
Then(first, second) == IF first # 0 THEN first ELSE second

\* cmp with the bug: two Active tasks are compared like any others
cmp_without_active_rule(self, other) ==
    Then(Compare(StatusRank(self.status), StatusRank(other.status)),
         Then(Compare(self.priority, other.priority),
              Compare(self.created_at, other.created_at)))

\* cmp with the bug: priority is compared after created_at
cmp_created_at_before_priority(self, other) ==
    IF self.status = Active /\ other.status = Active
      THEN Compare(self.created_at, other.created_at)
      ELSE Then(Compare(StatusRank(self.status), StatusRank(other.status)),
                Then(Compare(self.created_at, other.created_at),
                     Compare(self.priority, other.priority)))

\* Task::cmp(other): two Active tasks by created_at; any other pair by
\* status rank, then priority, then created_at
cmp(self, other) ==
    IF self.status = Active /\ other.status = Active
      THEN Compare(self.created_at, other.created_at)
      ELSE Then(Compare(StatusRank(self.status), StatusRank(other.status)),
                Then(Compare(self.priority, other.priority),
                     Compare(self.created_at, other.created_at)))

\* BinaryHeap::into_sorted_vec: the Vecs that hold every task of the heap
\* once, in ascending order; tasks that compare Equal come in any order
into_sorted_vec(heap) ==
    {v \in [1..Cardinality(heap) -> heap] :
        /\ \A i, j \in 1..Cardinality(heap) : i # j => v[i] # v[j]
        /\ \A i, j \in 1..Cardinality(heap) : i < j => cmp(v[i], v[j]) <= 0}

(***************************************************************************)
(* Prefix resolution: the Rust expression  task.id[0..id.len()] == id      *)
(***************************************************************************)
\* slicing id[0..len] panics when len is greater than the id's length
SlicePanics(id, prefix) == Len(prefix) > Len(id)

PrefixMatches(id, prefix) ==
    /\ ~SlicePanics(id, prefix)
    /\ SubSeq(id, 1, Len(prefix)) = prefix

\* the filter closure runs on every task of the heap, so one bad slice panics
ScanPanics(ts, prefix) == \E t \in ts : SlicePanics(t.id, prefix)

Matching(ts, prefix) == {t \in ts : PrefixMatches(t.id, prefix)}

match_count(ts, prefix) == Cardinality(Matching(ts, prefix))

\* .find(..).unwrap() after match_count == 1
FindTask(ts, prefix) == CHOOSE t \in ts : PrefixMatches(t.id, prefix)

\* Replace with the bug: the old record is not removed before the push
Replace_without_retain(ts, id, updated_task) == ts \cup {updated_task}

\* self.tasks.retain(|task| task.id != id); self.tasks.push(updated_task)
Replace(ts, id, updated_task) == {t \in ts : t.id # id} \cup {updated_task}

\* results of a store operation: the heap afterwards, the returned count,
\* and whether the call panicked instead of returning
Returned(ts, n) == [tasks |-> ts, ret |-> n, panic |-> FALSE]
Panicked(ts) == [tasks |-> ts, ret |-> -1, panic |-> TRUE]

(***************************************************************************)
(* Duration parsing as used by suspend_task: parse_duration::parse, whose   *)
(* result is a std::time::Duration (suspend_task calls as_secs on it).     *)
(* That type is unsigned: a negative total is an error.                    *)
(***************************************************************************)
parse(duration) ==
    CASE duration = "0"  -> [ok |-> TRUE, secs |-> 0]
      [] duration = "1s" -> [ok |-> TRUE, secs |-> 1]
      [] OTHER           -> [ok |-> FALSE, secs |-> 0]

(***************************************************************************)
(* Store operations (TaskList methods) as functions of the heap            *)
(***************************************************************************)
\* remove_task with the bug: a Completed task is kept
remove_task_keeps_completed(ts, id) ==
    IF ScanPanics(ts, id) THEN Panicked(ts)
    ELSE IF match_count(ts, id) # 1 THEN Returned(ts, 0)
    ELSE Returned({t \in ts : ~PrefixMatches(t.id, id) \/ t.status = Completed}, 0)

remove_task(ts, id) ==
    IF ScanPanics(ts, id) THEN Panicked(ts)
    ELSE IF match_count(ts, id) # 1 THEN Returned(ts, 0)
    ELSE Returned({t \in ts : ~PrefixMatches(t.id, id)}, 0)

start_task(ts, id) ==
    IF ScanPanics(ts, id) THEN Panicked(ts)
    ELSE IF match_count(ts, id) # 1 THEN Returned(ts, 0)
    ELSE LET task == FindTask(ts, id)
             updated_task == [task EXCEPT !.status = Active]
         IN  Returned(Replace(ts, task.id, updated_task), 1)

complete_task(ts, id) ==
    IF ScanPanics(ts, id) THEN Panicked(ts)
    ELSE IF match_count(ts, id) # 1 THEN Returned(ts, 0)
    ELSE LET task == FindTask(ts, id)
             updated_task == [task EXCEPT !.status = Completed]
         IN  Returned(Replace(ts, task.id, updated_task), 1)

\* suspend_task with the bug: wake_at is not set
suspend_task_without_wake_at(ts, id, duration, clock) ==
    IF ScanPanics(ts, id) THEN Panicked(ts)
    ELSE IF match_count(ts, id) # 1 THEN Returned(ts, 0)
    ELSE LET task == FindTask(ts, id)
             time_delta == parse(duration)
         IN  IF ~time_delta.ok THEN Panicked(ts)
             ELSE LET updated_task == [task EXCEPT !.status = Sleeping]
                  IN  Returned(Replace(ts, task.id, updated_task), 1)

suspend_task(ts, id, duration, clock) ==
    IF ScanPanics(ts, id) THEN Panicked(ts)
    ELSE IF match_count(ts, id) # 1 THEN Returned(ts, 0)
    ELSE LET task == FindTask(ts, id)
             time_delta == parse(duration)
         IN  IF ~time_delta.ok THEN Panicked(ts)
             ELSE LET updated_task ==
                          [task EXCEPT !.status = Sleeping,
                                       !.wake_at = Some(clock + time_delta.secs)]
                  IN  Returned(Replace(ts, task.id, updated_task), 1)

\* block_task_on with the bug: the blockee is marked Blocked but the blocker
\* is not recorded
block_task_on_status_only(ts, blockee_id, blocker_id) ==
    IF ScanPanics(ts, blockee_id) THEN Panicked(ts)
    ELSE IF match_count(ts, blockee_id) # 1 THEN Returned(ts, 0)
    ELSE IF ScanPanics(ts, blocker_id) THEN Panicked(ts)
    ELSE IF match_count(ts, blocker_id) # 1 THEN Returned(ts, 0)
    ELSE LET blockee == FindTask(ts, blockee_id)
             updated_task == [blockee EXCEPT !.status = Blocked]
         IN  Returned(Replace(ts, blockee.id, updated_task), 1)

block_task_on(ts, blockee_id, blocker_id) ==
    IF ScanPanics(ts, blockee_id) THEN Panicked(ts)
    ELSE IF match_count(ts, blockee_id) # 1 THEN Returned(ts, 0)
    ELSE IF ScanPanics(ts, blocker_id) THEN Panicked(ts)
    ELSE IF match_count(ts, blocker_id) # 1 THEN Returned(ts, 0)
    ELSE LET blockee == FindTask(ts, blockee_id)
             blocker == FindTask(ts, blocker_id)
             updated_task == block_on(blockee, blocker.id)
         IN  Returned(Replace(ts, blockee.id, updated_task), 1)

edit_task(ts, id, updates) ==
    IF ScanPanics(ts, id) THEN Panicked(ts)
    ELSE IF match_count(ts, id) # 1 THEN Returned(ts, 0)
    ELSE LET task == FindTask(ts, id)
             edited == invoke_editor(task, updates)
         IN  IF edited.panic THEN Panicked(ts)
             ELSE Returned(Replace(ts, task.id, edited.task), 1)

\* add_task with the bug: the id returned is that of a task already stored
add_task_returns_stored_id(ts, task) ==
    Returned(ts \cup {task},
             IF ts = {} THEN task.id ELSE (CHOOSE t \in ts : TRUE).id)

\* self.tasks.push(task), and the task's id is returned
add_task(ts, task) == Returned(ts \cup {task}, task.id)

(***************************************************************************)
(* The add command: task names are strings, here sequences of characters   *)
(***************************************************************************)
\* name.contains(' ')
contains_space(name) == \E i \in 1..Len(name) : name[i] = " "

RECURSIVE join_without_separator(_)
RECURSIVE join(_)
\* join with the bug: nothing between two names
join_without_separator(names) ==
    IF Len(names) = 0 THEN <<>>
    ELSE names[1] \o join_without_separator(Tail(names))

\* new_task_names.join(" ")
join(names) ==
    IF Len(names) = 0 THEN <<>>
    ELSE IF Len(names) = 1 THEN names[1]
    ELSE names[1] \o <<" ">> \o join(Tail(names))

\* the decimal digits of a count, as format! writes them
RECURSIVE to_decimal(_)
to_decimal(n) ==
    LET digit == <<"0", "1", "2", "3", "4", "5", "6", "7", "8", "9">>[(n % 10) + 1]
    IN  IF n < 10 THEN <<digit>> ELSE to_decimal(n \div 10) \o <<digit>>

\* format!("New task #{count}", count = task_list.num_tasks() + 1)
default_task_name(ts) ==
    <<"N", "e", "w", " ", "t", "a", "s", "k", " ", "#">>
        \o to_decimal(Cardinality(ts) + 1)

\* the for loop of process_add: one task per name, with the ids that
\* Task::new draws
RECURSIVE add_each(_, _, _, _, _)
add_each(ts, names, ids, is_interrupt, clock) ==
    IF Len(names) = 0 THEN ts
    ELSE add_each(
           add_task(ts, TaskNew(ids[1], names[1], "quick", is_interrupt, clock)).tasks,
           Tail(names), Tail(ids), is_interrupt, clock)

\* the number of tasks process_add creates for these names
created_count(new_task_names) ==
    IF Len(new_task_names) > 1 /\ \E i \in 1..Len(new_task_names) :
                                      contains_space(new_task_names[i])
      THEN Len(new_task_names)
      ELSE 1

\* process_add: the store afterwards and created_task_ids
process_add(ts, new_task_names, is_interrupt, ids, clock) ==
    IF Len(new_task_names) = 0
      THEN Returned(
             add_task(ts, TaskNew(ids[1], default_task_name(ts), "quick",
                                  is_interrupt, clock)).tasks,
             <<ids[1]>>)
    ELSE IF Len(new_task_names) > 1
      THEN LET count_multi_word ==
                   Cardinality({i \in 1..Len(new_task_names) :
                                   contains_space(new_task_names[i])})
           IN  IF count_multi_word = 0
                 THEN Returned(
                        add_task(ts, TaskNew(ids[1], join(new_task_names),
                                             "quick", is_interrupt, clock)).tasks,
                        <<ids[1]>>)
                 ELSE Returned(
                        add_each(ts, new_task_names, ids, is_interrupt, clock),
                        ids)
    ELSE Returned(
           add_task(ts, TaskNew(ids[1], new_task_names[1], "quick",
                                is_interrupt, clock)).tasks,
           <<ids[1]>>)

(***************************************************************************)
(* Maintenance passes                                                      *)
(***************************************************************************)
\* task.wake_at.unwrap() panics on a Sleeping task without wake_at
WakePanics(ts) == \E t \in ts : t.status = Sleeping /\ t.wake_at = None

IsExpired(t, clock) ==
    /\ t.status = Sleeping
    /\ \E w \in t.wake_at : w <= clock

\* wake_tasks with the bug: wake_at < now instead of wake_at <= now
wake_tasks_strictly_past(ts, clock) ==
    IF WakePanics(ts) THEN Panicked(ts)
    ELSE LET late(t) == t.status = Sleeping /\ \E w \in t.wake_at : w < clock
         IN  Returned(
               {IF late(t)
                  THEN [t EXCEPT !.status = Backlog, !.wake_at = None]
                  ELSE t : t \in ts},
               Cardinality({t \in ts : late(t)}))

\* wake_tasks with the bug: a Blocked task with a due wake_at is woken too
wake_tasks_any_due(ts, clock) ==
    IF WakePanics(ts) THEN Panicked(ts)
    ELSE LET due(t) == /\ t.status \in {Sleeping, Blocked}
                       /\ \E w \in t.wake_at : w <= clock
         IN  Returned(
               {IF due(t)
                  THEN [t EXCEPT !.status = Backlog, !.wake_at = None]
                  ELSE t : t \in ts},
               Cardinality({t \in ts : due(t)}))

wake_tasks(ts, clock) ==
    IF WakePanics(ts) THEN Panicked(ts)
    ELSE Returned(
           {IF IsExpired(t, clock)
              THEN [t EXCEPT !.status = Backlog, !.wake_at = None]
              ELSE t : t \in ts},
           Cardinality({t \in ts : IsExpired(t, clock)}))

\* the heaps a panic in the middle of wake_tasks can leave in self.tasks:
\* the tasks not popped yet; the panicking task has been popped
BadSleepers(ts) == {t \in ts : t.status = Sleeping /\ t.wake_at = None}

\* pop gives the greatest task first: the panic comes at the greatest bad
\* sleeper, when every greater task has been popped and no smaller one
WakeResidue(ts) ==
    {rest \in SUBSET ts :
        \E bad \in BadSleepers(ts) :
           /\ \A other \in BadSleepers(ts) : cmp(other, bad) <= 0
           /\ bad \notin rest
           /\ BadSleepers(ts) \ {bad} \subseteq rest
           /\ \A t \in ts : cmp(t, bad) > 0 => t \notin rest
           /\ \A t \in ts : cmp(t, bad) < 0 => t \in rest}

\* the ids still capable of blocking: every present task that is not Completed
CapableIds(ts) == {t.id : t \in {u \in ts : u.status # Completed}}

IsReleasable(t, ts) ==
    /\ t.status = Blocked
    /\ Elems(t.blocked_by) \cap CapableIds(ts) = {}

\* unblock_tasks with the bug: one blocker gone is enough to release
unblock_tasks_any_blocker_gone(ts) ==
    LET gone(t) == t.status = Blocked /\ Elems(t.blocked_by) \ CapableIds(ts) # {}
    IN  Returned(
          {IF gone(t) THEN [t EXCEPT !.status = Backlog] ELSE t : t \in ts},
          Cardinality({t \in ts : gone(t)}))

\* unblock_tasks with the bug: a task released by an earlier run is counted
\* again
unblock_tasks_counting_released(ts) ==
    LET stale(t) == /\ t.blocked_by # <<>>
                    /\ t.status \in {Blocked, Backlog}
                    /\ Elems(t.blocked_by) \cap CapableIds(ts) = {}
    IN  Returned(
          {IF stale(t) THEN [t EXCEPT !.status = Backlog] ELSE t : t \in ts},
          Cardinality({t \in ts : stale(t)}))

unblock_tasks(ts) ==
    Returned(
      {IF IsReleasable(t, ts) THEN [t EXCEPT !.status = Backlog] ELSE t
          : t \in ts},
      Cardinality({t \in ts : IsReleasable(t, ts)}))

(***************************************************************************)
(* Persistence: the file is a JSON array of the heap's tasks               *)
(***************************************************************************)
RECURSIVE IdRank(_)
IdRank(id) ==
    IF Len(id) = 0 THEN 0
    ELSE IdRank(SubSeq(id, 1, Len(id) - 1)) * 4 + id[Len(id)]

RECURSIVE to_string_pretty(_)
to_string_pretty(ts) ==
    IF ts = {} THEN <<>>
    ELSE LET first == CHOOSE t \in ts :
                          \A u \in ts : IdRank(t.id) <= IdRank(u.id)
         IN  <<first>> \o to_string_pretty(ts \ {first})

\* from_str with the bug: wake_at is not read back
from_str_without_wake_at(contents) ==
    {[contents[i] EXCEPT !.wake_at = None] : i \in 1..Len(contents)}

from_str(contents) == {contents[i] : i \in 1..Len(contents)}

\* what can be at db_path: no file yet, something that can neither be read
\* nor created (a directory, a file without permissions, a file in a
\* directory that is not there), a file whose text is not a JSON array of
\* tasks, or a file that some save wrote
MissingFile == [exists |-> FALSE, contents |-> <<>>, fault |-> "none"]
DeniedPath == [exists |-> FALSE, contents |-> <<>>, fault |-> "denied"]
GarbledFile == [exists |-> TRUE, contents |-> <<>>, fault |-> "garbled"]

\* File::create with the bug: the file is opened for appending
create_and_write_appending(f, serialized) ==
    [exists |-> TRUE, contents |-> f.contents \o serialized, fault |-> "none"]

\* File::create(&self.db_path) truncates; write_all writes the text
create_and_write(f, serialized) ==
    [exists |-> TRUE, contents |-> serialized, fault |-> "none"]

\* Result<(), io::Error>, and the file afterwards
save(ts, f) ==
    IF f.fault = "denied" THEN [ok |-> FALSE, file |-> f]
    ELSE [ok |-> TRUE, file |-> create_and_write(f, to_string_pretty(ts))]

\* Result<BinaryHeap<Task>, io::Error>
load(f) ==
    IF f.exists /\ f.fault = "none"
      THEN [ok |-> TRUE, tasks |-> from_str(f.contents)]
      ELSE [ok |-> FALSE, tasks |-> {}]

(***************************************************************************)
(* State                                                                   *)
(***************************************************************************)
VARIABLES
    tasks,    \* TaskList.tasks of the running session ({} between sessions)
    file,     \* the backing file at db_path
    now,      \* the clock (Local::now)
    phase,    \* "closed" | "loaded" | "running" | "panicked"
    lastOp,   \* the last store call: its name and what it returned
    calls,    \* the number of store calls the run may still make
    released, \* the store as it was at the last Drop, and the clock then
    view,     \* the Vec that into_sorted_vec gave last (<<>> before any)
    peer,     \* a second invocation on the same db_path: its phase, its
              \* TaskList.tasks and what it released
    parsed    \* a string given to simple_duration::parse and what came back

vars == <<tasks, file, now, phase, lastOp, calls, released, view, peer,
          parsed>>

\* nothing was given to simple_duration::parse
NoDuration == [input |-> <<>>, result |-> [kind |-> "none"]]

\* the exit status of a process that panicked
PanicExit == 101

\* no second invocation is running
NoPeer == [phase |-> "closed", tasks |-> {},
           released |-> [tasks |-> {}, at |-> 0]]

Open == {"loaded", "running"}

Call(op, r) == [op |-> op, ret |-> r.ret]

NoCall == [op |-> "none", ret |-> 0]

\* ids never handed out so far, as far as any stored reference can tell
StoredTasks ==
    tasks \cup from_str(file.contents) \cup peer.tasks \cup peer.released.tasks
KnownIds == {t.id : t \in StoredTasks} \cup UNION {Elems(t.blocked_by) : t \in StoredTasks}
FreshIds == Ids \ KnownIds

\* before the first run: no backing file yet
FirstRun ==
    /\ tasks = {}
    /\ file = MissingFile
    /\ now = 0
    /\ phase = "closed"
    /\ lastOp = NoCall
    /\ released = [tasks |-> {}, at |-> 0]
    /\ view = <<>>
    /\ peer = NoPeer
    /\ parsed = NoDuration

Init ==
    /\ FirstRun
    /\ calls = MaxCalls

\* the session's store changes as a store call r says
Apply(op, r) ==
    /\ phase \in Open
    /\ calls > 0
    /\ calls' = calls - 1
    /\ tasks' = r.tasks
    /\ phase' = IF r.panic THEN "panicked" ELSE "running"
    /\ lastOp' = Call(op, r)
    /\ UNCHANGED <<file, now, released, view, peer, parsed>>

\* TaskList::new(db_path): the heap of the new TaskList, or a panic in the
\* wake pass
new(f, clock) ==
    LET result == load(f)
    IN  IF result.ok THEN wake_tasks(result.tasks, clock)
        ELSE Returned({}, 0)

New ==
    /\ phase = "closed"
    /\ LET task_list == new(file, now)
       IN  IF task_list.panic
             THEN /\ tasks' \in WakeResidue(task_list.tasks)
                  /\ phase' = "panicked"
             ELSE /\ tasks' = task_list.tasks
                  /\ phase' = "loaded"
    /\ lastOp' = [NoCall EXCEPT !.op = "new"]
    /\ UNCHANGED <<file, now, calls, released, view, peer, parsed>>

\* impl Drop for TaskList, at the end of the session or while unwinding
\* (self.save().unwrap(): a failed save panics); lastOp.ret is the status
\* the process exits with
Drop ==
    /\ phase \in Open \cup {"panicked"}
    /\ LET saved == save(tasks, file)
       IN  /\ file' = saved.file
           /\ lastOp' = [op  |-> "drop",
                         ret |-> IF saved.ok /\ phase \in Open THEN 0
                                 ELSE PanicExit]
    /\ tasks' = {}
    /\ phase' = "closed"
    /\ released' = [tasks |-> tasks, at |-> now]
    /\ UNCHANGED <<now, calls, view, peer, parsed>>

AddTask(id, summary, is_interrupt) ==
    /\ Cardinality(tasks) < MaxTasks
    /\ id \in FreshIds
    /\ Apply("add", add_task(tasks, TaskNew(id, summary, "quick", is_interrupt, now)))

RemoveTask(id) == Apply("remove", remove_task(tasks, id))

StartTask(id) == Apply("start", start_task(tasks, id))

CompleteTask(id) == Apply("complete", complete_task(tasks, id))

SuspendTask(id, duration) ==
    Apply("suspend", suspend_task(tasks, id, duration, now))

BlockTaskOn(blockee_id, blocker_id) ==
    Apply("block", block_task_on(tasks, blockee_id, blocker_id))

EditTask(id, updates) == Apply("edit", edit_task(tasks, id, updates))

\* a caller runs the wake pass on an open store
WakeTasks ==
    LET woken == wake_tasks(tasks, now)
    IN  IF woken.panic
          THEN /\ phase \in Open
               /\ calls > 0
               /\ calls' = calls - 1
               /\ tasks' \in WakeResidue(tasks)
               /\ phase' = "panicked"
               /\ lastOp' = Call("wake", woken)
               /\ UNCHANGED <<file, now, released, view, peer, parsed>>
          ELSE Apply("wake", woken)

\* a caller runs the unblock pass on an open store
UnblockTasks == Apply("unblock", unblock_tasks(tasks))

\* time passes
Tick ==
    /\ now < MaxTime
    /\ now' = now + 1
    /\ UNCHANGED <<tasks, file, phase, lastOp, calls, released, view, peer,
                   parsed>>

Next ==
    \/ New
    \/ Drop
    \/ \E id \in Ids, summary \in Summaries, is_interrupt \in BOOLEAN :
          AddTask(id, summary, is_interrupt)
    \/ \E id \in Prefixes : RemoveTask(id)
    \/ \E id \in Prefixes : StartTask(id)
    \/ \E id \in Prefixes : CompleteTask(id)
    \/ \E id \in Prefixes, duration \in Durations : SuspendTask(id, duration)
    \/ \E blockee_id \in Prefixes, blocker_id \in Prefixes :
          BlockTaskOn(blockee_id, blocker_id)
    \/ WakeTasks
    \/ UnblockTasks
    \/ Tick

Spec == Init /\ [][Next]_vars

\* the texts the editor may write back: garbage, or a task with any id,
\* status and blocked_by
EditorOutputs ==
    {Unparsable} \cup
    {Parsed([TaskNew(id, summary, "quick", FALSE, 0)
                EXCEPT !.status = status, !.blocked_by = blocked_by]) :
        id \in EditIds, summary \in EditSummaries,
        status \in TaskStatus, blocked_by \in EditBlockedBy}

NextEdit ==
    \/ Next
    \/ \E id \in Prefixes, updates \in EditorOutputs : EditTask(id, updates)

\* the store with the edit command
InitEdit ==
    /\ FirstRun
    /\ calls = MaxEditCalls

SpecEdit == InitEdit /\ [][NextEdit]_vars


\* a store of three tasks, one of them blocked on one or both of the others:
\* the state after three add_task calls and the block_task_on calls
BlockeeId == [i \in 1..IdLen |-> 1]
BlockerIds == {[i \in 1..IdLen |-> IF i = k THEN 2 ELSE 1] : k \in 1..2}
\* the blocked_by deques that one or two block_task_on calls leave
BlockerLists ==
    {<<y>> : y \in BlockerIds}
       \cup {pair \in BlockerIds \X BlockerIds : pair[1] # pair[2]}

InitUnblock ==
    /\ \E blockers \in BlockerLists :
          tasks = {[TaskNew(BlockeeId, "s", "quick", FALSE, 0)
                       EXCEPT !.blocked_by = blockers, !.status = Blocked]}
                  \cup {TaskNew(id, "s", "quick", FALSE, 0) : id \in BlockerIds}
    /\ file = MissingFile
    /\ now = 0
    /\ phase = "running"
    /\ lastOp = [op |-> "block", ret |-> 1]
    /\ released = [tasks |-> {}, at |-> 0]
    /\ view = <<>>
    /\ peer = NoPeer
    /\ parsed = NoDuration
    /\ calls = MaxUnblockCalls

\* the store operations on a store with a blocked task
SpecUnblock == InitUnblock /\ [][Next]_vars

\* the command line on a store that holds two tasks: the state after two
\* add_task calls, the second at the clock value now
CliFirstId == [i \in 1..IdLen |-> 1]
CliSecondId == [i \in 1..IdLen |-> IF i = IdLen THEN 2 ELSE 1]

InitCli ==
    /\ \E first \in BOOLEAN, second \in BOOLEAN, clock \in 0..MaxTime :
          /\ tasks = {TaskNew(CliFirstId, "s", "quick", first, 0),
                      TaskNew(CliSecondId, "s", "quick", second, clock)}
          /\ now = clock
    /\ file = MissingFile
    /\ phase = "running"
    /\ lastOp = [op |-> "add", ret |-> CliSecondId]
    /\ released = [tasks |-> {}, at |-> 0]
    /\ view = <<>>
    /\ peer = NoPeer
    /\ parsed = NoDuration
    /\ calls = MaxCliCalls

\* what the command line does with a store: the passes run in TaskList::new
\* only
NextCli ==
    \/ New
    \/ Drop
    \/ \E id \in Ids, summary \in Summaries, is_interrupt \in BOOLEAN :
          AddTask(id, summary, is_interrupt)
    \/ \E id \in Prefixes : RemoveTask(id)
    \/ \E id \in Prefixes : StartTask(id)
    \/ \E id \in Prefixes : CompleteTask(id)
    \/ \E id \in Prefixes, duration \in Durations : SuspendTask(id, duration)
    \/ \E blockee_id \in Prefixes, blocker_id \in Prefixes :
          BlockTaskOn(blockee_id, blocker_id)
    \/ \E id \in Prefixes, updates \in EditorOutputs : EditTask(id, updates)
    \/ Tick

SpecCli == InitCli /\ [][NextCli]_vars

\* the tasks whose order is looked at: three tasks of any status, priority
\* and creation time
OrderPriorities == {1, 5}
OrderIds == {[i \in 1..IdLen |-> IF i = k THEN 2 ELSE 1] : k \in 0..2}
OrderKeys == TaskStatus \X OrderPriorities \X (0..MaxTime)
OrderTask(id, key) ==
    [TaskNew(id, "s", "quick", FALSE, key[3])
        EXCEPT !.status = key[1], !.priority = key[2]]

InitOrder ==
    /\ \E keys \in [OrderIds -> OrderKeys] :
          tasks = {OrderTask(id, keys[id]) : id \in OrderIds}
    /\ file = MissingFile
    /\ now = MaxTime
    /\ phase = "loaded"
    /\ lastOp = NoCall
    /\ released = [tasks |-> {}, at |-> 0]
    /\ view = <<>>
    /\ peer = NoPeer
    /\ parsed = NoDuration
    /\ calls = 0

\* let mut tasks = task_list.tasks.clone().into_sorted_vec()
IntoSortedVec ==
    /\ view = <<>>
    /\ view' \in into_sorted_vec(tasks)
    /\ UNCHANGED <<tasks, file, now, phase, lastOp, calls, released, peer, parsed>>

NextOrder == IntoSortedVec

\* process_list on the open store: the sorted clone is printed and counted
ListTasks ==
    /\ phase \in Open
    /\ calls > 0
    /\ calls' = calls - 1
    /\ view' \in into_sorted_vec(tasks)
    /\ phase' = "running"
    /\ lastOp' = [op |-> "list", ret |-> Cardinality(tasks)]
    /\ UNCHANGED <<tasks, file, now, released, peer, parsed>>

\* the first run on a path: nothing there, nothing that can be read or
\* created there, or a file that is not a task list
InitFirstRun ==
    /\ file \in {MissingFile, DeniedPath, GarbledFile}
    /\ tasks = {}
    /\ now = 0
    /\ phase = "closed"
    /\ lastOp = NoCall
    /\ released = [tasks |-> {}, at |-> 0]
    /\ view = <<>>
    /\ peer = NoPeer
    /\ parsed = NoDuration
    /\ calls = MaxFirstRunCalls

NextFirstRun ==
    \/ New
    \/ Drop
    \/ \E id \in Ids, summary \in Summaries, is_interrupt \in BOOLEAN :
          AddTask(id, summary, is_interrupt)
    \/ ListTasks

SpecFirstRun == InitFirstRun /\ [][NextFirstRun]_vars

\* the names an add command may be given: one word, two words, nothing
TaskNames == {<<"a">>, <<"b", " ", "c">>, <<>>}
NameLists == UNION {[1..k -> TaskNames] : k \in 0..MaxNames}

\* the ids that Task::new draws for count new tasks
FreshIdLists(count) ==
    {ids \in [1..count -> FreshIds] :
        \A i, j \in 1..count : i # j => ids[i] # ids[j]}

\* the add command on the open store
ProcessAdd(new_task_names, is_interrupt) ==
    \E ids \in FreshIdLists(created_count(new_task_names)) :
       Apply("process_add",
             process_add(tasks, new_task_names, is_interrupt, ids, now))

InitAdd ==
    /\ FirstRun
    /\ calls = MaxAddCalls

NextAdd ==
    \/ New
    \/ Drop
    \/ \E new_task_names \in NameLists, is_interrupt \in BOOLEAN :
          ProcessAdd(new_task_names, is_interrupt)

SpecAdd == InitAdd /\ [][NextAdd]_vars

\* two invocations of the program on one db_path: the operating system
\* runs the other process from here on
Switch ==
    /\ peer' = [phase |-> phase, tasks |-> tasks, released |-> released]
    /\ phase' = peer.phase
    /\ tasks' = peer.tasks
    /\ released' = peer.released
    /\ lastOp' = [NoCall EXCEPT !.op = "switch"]
    /\ UNCHANGED <<file, now, calls, view, parsed>>

InitRace ==
    /\ FirstRun
    /\ calls = MaxRaceCalls

NextRace ==
    \/ New
    \/ Drop
    \/ \E id \in Ids, summary \in Summaries, is_interrupt \in BOOLEAN :
          AddTask(id, summary, is_interrupt)
    \/ \E id \in Prefixes : CompleteTask(id)
    \/ Switch

SpecRace == InitRace /\ [][NextRace]_vars

-----------------------------------------------------------------------------
\* simple_duration::parse.  A string is a sequence of characters; a count
\* of seconds is a sequence of decimal digits, most significant first, so
\* that the 64 bits of i64 are kept.

DecimalDigits == <<"0", "1", "2", "3", "4", "5", "6", "7", "8", "9">>

\* \d, over the characters of the model
Digits == {DecimalDigits[d] : d \in 1..10}

\* [[:alpha:]\p{Greek}], over the characters of the model
Letters == {"s", "m", "h", "d", "w", "q"}

digit_value(c) == (CHOOSE d \in 1..10 : DecimalDigits[d] = c) - 1

RECURSIVE run_end(_, _, _)
\* a greedy repetition: the first position at or after i whose character
\* is outside class
run_end(s, i, class) ==
    IF i <= Len(s) /\ s[i] \in class THEN run_end(s, i + 1, class) ELSE i

RECURSIVE find_digit(_, _)
\* where the leftmost match at or after i starts: a match starts with \d
find_digit(s, i) ==
    IF i > Len(s) THEN 0
    ELSE IF s[i] \in Digits THEN i ELSE find_digit(s, i + 1)

RECURSIVE captures_iter(_, _)
\* the successive non-overlapping matches of
\* (?P<value>\d+) *(?P<unit>[[:alpha:]\p{Greek}]*) from position i on
captures_iter(s, i) ==
    LET p == find_digit(s, i)
    IN  IF p = 0 THEN <<>>
        ELSE LET v == run_end(s, p, Digits)
                 u == run_end(s, v, {" "})
                 e == run_end(s, u, Letters)
             IN  <<[value |-> SubSeq(s, p, v - 1),
                    unit  |-> SubSeq(s, u, e - 1)]>> \o captures_iter(s, e)

RECURSIVE strip_zeros(_)
strip_zeros(n) ==
    IF Len(n) > 1 /\ Head(n) = 0 THEN strip_zeros(Tail(n)) ELSE n

\* the number a run of digits writes
to_number(value) ==
    strip_zeros([i \in 1..Len(value) |-> digit_value(value[i])])

\* a <= b, for numbers without leading zeros
LessEq(a, b) ==
    \/ Len(a) < Len(b)
    \/ /\ Len(a) = Len(b)
       /\ \/ a = b
          \/ \E i \in 1..Len(a) : /\ a[i] < b[i]
                                  /\ \A j \in 1..(i - 1) : a[j] = b[j]

RECURSIVE digits_of(_)
digits_of(c) == IF c < 10 THEN <<c>> ELSE digits_of(c \div 10) \o <<c % 10>>

RECURSIVE mul_carry(_, _, _)
mul_carry(n, k, carry) ==
    IF n = <<>> THEN digits_of(carry)
    ELSE LET t == n[Len(n)] * k + carry
         IN  mul_carry(SubSeq(n, 1, Len(n) - 1), k, t \div 10) \o <<t % 10>>

\* value * unit_multiplier, exactly
mul(n, k) == strip_zeros(mul_carry(n, k, 0))

RECURSIVE add_carry(_, _, _)
add_carry(a, b, carry) ==
    IF a = <<>> /\ b = <<>> THEN <<carry>>
    ELSE LET x == IF a = <<>> THEN 0 ELSE a[Len(a)]
             y == IF b = <<>> THEN 0 ELSE b[Len(b)]
             t == x + y + carry
         IN  add_carry(IF a = <<>> THEN a ELSE SubSeq(a, 1, Len(a) - 1),
                       IF b = <<>> THEN b ELSE SubSeq(b, 1, Len(b) - 1),
                       t \div 10) \o <<t % 10>>

\* duration + product, exactly
add(a, b) == strip_zeros(add_carry(a, b, 0))

\* i64::MAX
I64_MAX == <<9, 2, 2, 3, 3, 7, 2, 0, 3, 6, 8, 5, 4, 7, 7, 5, 8, 0, 7>>

\* the largest count of seconds a TimeDelta holds: i64::MAX / 1000
TimeDeltaMaxSeconds == <<9, 2, 2, 3, 3, 7, 2, 0, 3, 6, 8, 5, 4, 7, 7, 5>>

SECONDS_PER_MINUTE == 60
SECONDS_PER_HOUR == SECONDS_PER_MINUTE * 60
SECONDS_PER_DAY == SECONDS_PER_HOUR * 24
SECONDS_PER_WEEK == SECONDS_PER_DAY * 7

KnownUnits == {<<"s">>, <<"m">>, <<"h">>, <<"d">>, <<"w">>}

unit_multiplier(unit) ==
    CASE unit = <<"s">> -> 1
      [] unit = <<"m">> -> SECONDS_PER_MINUTE
      [] unit = <<"h">> -> SECONDS_PER_HOUR
      [] unit = <<"d">> -> SECONDS_PER_DAY
      [] unit = <<"w">> -> SECONDS_PER_WEEK

\* what a call of parse comes to: Ok of a TimeDelta, Err(ParseError), a
\* panic, or (where overflow is not checked) the Ok or the panic that a
\* wrapped i64 gives
OkSeconds(negative, magnitude) ==
    [kind |-> "ok", negative |-> negative /\ magnitude # <<0>>,
     magnitude |-> magnitude]
ParseError == [kind |-> "err"]
ParsePanicked == [kind |-> "panic"]
Wrapped == [kind |-> "wrapped"]

\* the builds of the crate: with overflow checks (the dev profile) and
\* without (the release profile)
Builds == {"checked", "unchecked"}

\* TimeDelta::seconds panics outside the range of a TimeDelta
TimeDelta_seconds(negative, magnitude) ==
    IF LessEq(magnitude, TimeDeltaMaxSeconds)
    THEN OkSeconds(negative, magnitude)
    ELSE ParsePanicked

RECURSIVE sum_results(_, _, _)
\* the loop over results; acc is the i64 duration so far, or what is left
\* of it after an unchecked overflow
sum_results(results, acc, build) ==
    IF results = <<>> THEN acc
    ELSE LET cap == Head(results)
             value == to_number(cap.value)
         IN  IF ~LessEq(value, I64_MAX) THEN ParsePanicked
             ELSE IF cap.unit \notin KnownUnits THEN ParseError
             ELSE LET product == mul(value, unit_multiplier(cap.unit))
                      sum == add(acc.magnitude, product)
                      fits == /\ acc.kind = "ok"
                              /\ LessEq(product, I64_MAX)
                              /\ LessEq(sum, I64_MAX)
                  IN  IF fits
                      THEN sum_results(Tail(results),
                                       OkSeconds(FALSE, sum), build)
                      ELSE IF build = "checked" THEN ParsePanicked
                      ELSE sum_results(Tail(results), Wrapped, build)

simple_duration_parse(s, build) ==
    IF s = <<"0">> THEN OkSeconds(FALSE, <<0>>)
    ELSE LET sign_negative == Len(s) > 0 /\ s[1] = "-"
             results == captures_iter(s, 1)
         IN  IF results = <<>> THEN ParseError
             ELSE LET duration ==
                          sum_results(results, OkSeconds(FALSE, <<0>>), build)
                  IN  IF duration.kind = "ok"
                      THEN TimeDelta_seconds(sign_negative,
                                             duration.magnitude)
                      ELSE duration

\* the strings given to parse: every string of up to MaxDurationLen
\* characters of DurationAlphabet, and strings of one or two components
\* whose numbers lie around the limits of i64 and of TimeDelta
DurationAlphabet == {"0", "1", "9", "s", "w", "q", " ", "-"}

ShortStrings ==
    UNION {[1..n -> DurationAlphabet] : n \in 0..MaxDurationLen}

LongNumbers ==
    {[i \in 1..Len(n) |-> DecimalDigits[n[i] + 1]] : n \in
        {<<2>>, <<0, 7>>,
         <<1, 5, 2, 5, 0, 2, 8, 4, 4, 5, 2, 4, 7, 1>>,
         <<1, 5, 2, 5, 0, 2, 8, 4, 4, 5, 2, 4, 7, 2>>,
         TimeDeltaMaxSeconds,
         add(TimeDeltaMaxSeconds, <<1>>),
         I64_MAX,
         add(I64_MAX, <<1>>)}}

LongComponents ==
    {n \o u : n \in LongNumbers, u \in {<<"s">>, <<"w">>, <<"q">>, <<>>}}

LongStrings ==
    {sign \o first \o gap \o second :
        sign \in {<<>>, <<"-">>}, first \in LongComponents,
        gap \in {<<>>, <<" ">>}, second \in LongComponents \cup {<<>>}}

InitDuration ==
    /\ tasks = {}
    /\ file = MissingFile
    /\ now = 0
    /\ phase = "closed"
    /\ lastOp = NoCall
    /\ calls = 0
    /\ released = [tasks |-> {}, at |-> 0]
    /\ view = <<>>
    /\ peer = NoPeer
    /\ \E s \in ShortStrings \cup LongStrings :
          parsed = [NoDuration EXCEPT !.input = s]

\* one call of simple_duration::parse
SimpleDurationParse ==
    /\ parsed.result.kind = "none"
    /\ \E build \in Builds :
          parsed' = [parsed EXCEPT
                        !.result = simple_duration_parse(parsed.input, build)]
    /\ UNCHANGED <<tasks, file, now, phase, lastOp, calls, released, view,
                   peer>>

SpecDuration == InitDuration /\ [][SimpleDurationParse]_vars

\* the sorted view of a heap of three tasks
SpecOrder == InitOrder /\ [][NextOrder]_vars

-----------------------------------------------------------------------------
\* The commands run with no task id (task_ids.is_empty()).  Each gives the
\* set of stores and counts it can come to: tasks that compare Equal may
\* come in any order out of into_sorted_vec and out of pop.

\* tasks.retain(|task| task.status == status) on a clone of the heap
retain(ts, status) == {t \in ts : t.status = status}

\* tasks.into_sorted_vec(), then tasks.remove(0)
remove_0(ts) == {v[1] : v \in into_sorted_vec(ts)}

\* the count the command reports after a store call: the call's own count
\* is dropped
Counted(r, count) == IF r.panic THEN r ELSE Returned(r.tasks, count)

process_complete(ts) ==
    IF retain(ts, Active) = {} THEN {Returned(ts, 0)}
    ELSE {Counted(complete_task(ts, task.id), 1) :
             task \in remove_0(retain(ts, Active))}

\* process_start with the bug: the count of Active tasks is not looked at
process_start_despite_active(ts) ==
    IF retain(ts, Backlog) = {} THEN {Returned(ts, 0)}
    ELSE {Counted(start_task(ts, task.id), 1) :
             task \in remove_0(retain(ts, Backlog))}

process_start(ts) ==
    IF Cardinality(retain(ts, Active)) = 0
    THEN IF retain(ts, Backlog) = {} THEN {Returned(ts, 0)}
         ELSE {Counted(start_task(ts, task.id), 1) :
                  task \in remove_0(retain(ts, Backlog))}
    ELSE {Returned(ts, 0)}

process_stop(ts, clock) ==
    IF Cardinality(retain(ts, Active)) # 0
    THEN {Counted(suspend_task(ts, task.id, "0", clock), 1) :
             task \in remove_0(retain(ts, Active))}
    ELSE {Returned(ts, 0)}

process_sleep(ts, duration, clock) ==
    IF retain(ts, Active) = {} THEN {Returned(ts, 0)}
    ELSE {Counted(suspend_task(ts, task.id, duration, clock), 1) :
             task \in remove_0(retain(ts, Active))}

\* process_edit with the bug: no early return, so that tasks.remove(0)
\* panics on the empty Vec
process_edit_unguarded(ts, updates) ==
    IF retain(ts, Active) = {} THEN {Panicked(ts)}
    ELSE {Counted(edit_task(ts, task.id, updates), 1) :
             task \in remove_0(retain(ts, Active))}

\* details_only is false: edit_task is called
process_edit(ts, updates) ==
    IF retain(ts, Active) = {} THEN {Returned(ts, 0)}
    ELSE {Counted(edit_task(ts, task.id, updates), 1) :
             task \in remove_0(retain(ts, Active))}

\* pop with the bug: a least task leaves the heap
pop_least(ts) ==
    IF ts = {} THEN {ts}
    ELSE {ts \ {v[1]} : v \in into_sorted_vec(ts)}

\* BinaryHeap::pop: a greatest task leaves the heap, if there is one
pop(ts) ==
    IF ts = {} THEN {ts}
    ELSE {ts \ {v[Cardinality(ts)]} : v \in into_sorted_vec(ts)}

process_del(ts) ==
    {Returned(rest, Cardinality(ts) - Cardinality(rest)) : rest \in pop(ts)}

\* process_show with the bug: no task is started
process_show_without_start(ts) ==
    IF retain(ts, Active) = {} THEN {Returned(ts, 0)}
    ELSE {Returned(ts, 1)}

process_show(ts) ==
    IF retain(ts, Active) = {}
    THEN {IF retain(started.tasks, Active) = {}
            THEN Returned(started.tasks, 0)
            ELSE Returned(started.tasks, 1) : started \in process_start(ts)}
    ELSE {Returned(ts, 1)}

\* process_list with show_all: the categorized list is printed and the
\* number of tasks is returned
process_list(ts) == {Returned(ts, Cardinality(ts))}

\* the files the commands are run on: up to three tasks of any status,
\* priority and creation time; a Sleeping task has a wake_at that is not
\* due, a Blocked task a blocker
DefaultTask(id, key) ==
    [OrderTask(id, key) EXCEPT
        !.wake_at = IF key[1] = Sleeping THEN Some(MaxTime + 1) ELSE None,
        !.blocked_by = IF key[1] = Blocked
                         THEN <<[i \in 1..IdLen |-> 2]>> ELSE <<>>]

InitDefault ==
    /\ \E ids \in SUBSET OrderIds :
          \E keys \in [ids -> OrderKeys] :
             file = save({DefaultTask(id, keys[id]) : id \in ids},
                         MissingFile).file
    /\ tasks = {}
    /\ now = MaxTime
    /\ phase = "closed"
    /\ lastOp = NoCall
    /\ released = [tasks |-> {}, at |-> 0]
    /\ view = <<>>
    /\ peer = NoPeer
    /\ parsed = NoDuration
    /\ calls = MaxDefaultCalls

ProcessComplete == \E r \in process_complete(tasks) : Apply("process_complete", r)
ProcessStart == \E r \in process_start(tasks) : Apply("process_start", r)
ProcessStop == \E r \in process_stop(tasks, now) : Apply("process_stop", r)
ProcessSleep(duration) ==
    \E r \in process_sleep(tasks, duration, now) : Apply("process_sleep", r)
ProcessEdit(updates) ==
    \E r \in process_edit(tasks, updates) : Apply("process_edit", r)
ProcessDel == \E r \in process_del(tasks) : Apply("process_del", r)
ProcessShow == \E r \in process_show(tasks) : Apply("process_show", r)
ProcessList == \E r \in process_list(tasks) : Apply("process_list", r)

\* what the editor writes back in these runs: garbage, or a task with a new
\* summary, any id and any status
DefaultEdits ==
    {updates \in EditorOutputs :
        updates.parses =>
            updates.task.summary = "e" /\ updates.task.blocked_by = <<>>}

NextDefault ==
    \/ New
    \/ ProcessComplete
    \/ ProcessStart
    \/ ProcessStop
    \/ \E duration \in Durations : ProcessSleep(duration)
    \/ \E updates \in DefaultEdits : ProcessEdit(updates)
    \/ ProcessDel
    \/ ProcessShow
    \/ ProcessList

\* one run of the command line: TaskList::new, then a command with no
\* task id
SpecDefault == InitDefault /\ [][NextDefault]_vars

(***************************************************************************)
(* Vocabulary of the claims                                                *)
(***************************************************************************)
\* id starts with prefix, as strings: a prefix longer than the id does not
StartsWith(id, prefix) ==
    /\ Len(prefix) <= Len(id)
    /\ \A i \in 1..Len(prefix) : id[i] = prefix[i]

\* the number of tasks whose id starts with prefix
Hits(prefix) == Cardinality({t \in tasks : StartsWith(t.id, prefix)})

\* the step is a store call (not a tick, a load or a release)
IsCall(op) == calls' = calls - 1 /\ lastOp'.op = op

\* the step is a call of a prefix-addressed operation that names prefix
Addresses(prefix) ==
    \/ IsCall("remove") /\ RemoveTask(prefix)
    \/ IsCall("start") /\ StartTask(prefix)
    \/ IsCall("complete") /\ CompleteTask(prefix)
    \/ IsCall("suspend") /\ \E duration \in Durations : SuspendTask(prefix, duration)
    \/ IsCall("edit") /\ \E updates \in EditorOutputs : EditTask(prefix, updates)
    \/ IsCall("block") /\ \E other \in Prefixes :
          BlockTaskOn(prefix, other) \/ BlockTaskOn(other, prefix)

\* a task of the store has a blocker that is present and not Completed
HasLiveBlocker(t, ts) ==
    \E b \in Elems(t.blocked_by) : \E u \in ts : u.id = b /\ u.status # Completed

(***************************************************************************)
(* C1: a prefix-addressed operation whose prefix does not match exactly    *)
(* one task returns normally, changes no task, returns 0 and the session   *)
(* goes on.  Fails: a prefix longer than the stored ids makes the slice    *)
(* task.id[0..id.len()] panic.                                             *)
(***************************************************************************)
C1_AmbiguousPrefixChangesNothing ==
    [][\A prefix \in Prefixes :
          (Hits(prefix) # 1 /\ Addresses(prefix))
             => /\ tasks' = tasks
                /\ lastOp'.ret = 0
                /\ phase' = "running"]_vars

(***************************************************************************)
(* C2: once a task is Completed, start, suspend, block and the two passes  *)
(* leave it Completed.  Fails: start_task, suspend_task and block_task_on  *)
(* set the status whatever it was.                                         *)
(***************************************************************************)
TransitionOps == {"start", "suspend", "block", "wake", "unblock"}

C2_CompletedIsTerminal ==
    [][(\E op \in TransitionOps : IsCall(op))
          => \A t \in tasks : \A u \in tasks' :
                (t.status = Completed /\ u.id = t.id) => u.status = Completed]_vars

(***************************************************************************)
(* C3: every status change made by a transition operation is one of the    *)
(* listed (source, operation, target) triples.  Fails: start_task makes    *)
(* any task Active, suspend_task any task Sleeping, block any task Blocked.*)
(***************************************************************************)
Listed(from, op, to) ==
    \/ op = "start" /\ from = Backlog /\ to = Active
    \/ op = "suspend" /\ from = Active /\ to = Sleeping
    \/ op = "block" /\ from \in {Active, Backlog} /\ to = Blocked
    \/ op = "unblock" /\ from = Blocked /\ to = Backlog
    \/ op = "wake" /\ from = Sleeping /\ to = Backlog
    \/ op = "complete" /\ to = Completed

C3_OnlyListedTransitions ==
    [][\A op \in TransitionOps \cup {"complete"} :
          IsCall(op)
             => \A t \in tasks : \A u \in tasks' :
                   (u.id = t.id /\ u.status # t.status)
                      => Listed(t.status, op, u.status)]_vars

(***************************************************************************)
(* C4: after a maintenance pass or a block operation, a task is Blocked    *)
(* if and only if its blocked_by is non-empty.  The "if" half fails: a     *)
(* task that leaves Blocked keeps its blocked_by.  The "only if" half      *)
(* holds.                                                                  *)
(***************************************************************************)
AfterPassOrBlock ==
    /\ phase \in Open
    /\ lastOp.op \in {"new", "wake", "unblock", "block"}

C4_BlockedIffBlockedBy ==
    AfterPassOrBlock
       => \A t \in tasks : (t.status = Blocked) <=> (t.blocked_by # <<>>)

C4_BlockedHasBlockedBy ==
    AfterPassOrBlock
       => \A t \in tasks : (t.status = Blocked) => (t.blocked_by # <<>>)

C4_Witness ==
    /\ phase = "running"
    /\ lastOp.op = "block"
    /\ lastOp.ret = 1
    /\ \E t \in tasks : t.status = Blocked /\ t.blocked_by # <<>>
    /\ \E t \in tasks : t.status # Blocked

(***************************************************************************)
(* C5: a task is Sleeping if and only if it has a wake_at.  The "if" half  *)
(* fails: start, complete and block leave wake_at on a task that was       *)
(* Sleeping.  The "only if" half holds.                                    *)
(***************************************************************************)
C5_SleepingIffWakeAt ==
    \A t \in tasks : (t.status = Sleeping) <=> (t.wake_at # None)

C5_SleepingHasWakeAt ==
    \A t \in tasks : (t.status = Sleeping) => (t.wake_at # None)

C5_Witness ==
    /\ phase = "running"
    /\ lastOp.op = "suspend"
    /\ lastOp.ret = 1
    /\ \E t \in tasks : t.status = Sleeping /\ t.wake_at # None

(***************************************************************************)
(* C6: when TaskList::new returns for a readable file, every loaded task   *)
(* that was Sleeping with wake_at <= now is Backlog without wake_at, and   *)
(* every other loaded task is as it was in the file.                       *)
(***************************************************************************)
FileTasks == {file.contents[i] : i \in 1..Len(file.contents)}

Due(t) == t.status = Sleeping /\ \E w \in t.wake_at : w <= now

C6_LoadWakesDueSleepers ==
    [][(phase = "closed" /\ phase' = "loaded" /\ file.exists)
          => /\ \A t \in FileTasks :
                   IF Due(t)
                     THEN /\ [t EXCEPT !.status = Backlog, !.wake_at = None]
                                \in tasks'
                          /\ t \notin tasks'
                     ELSE t \in tasks'
             /\ Cardinality(tasks') = Cardinality(FileTasks)]_vars

C6_Witness ==
    /\ phase = "loaded"
    /\ \E t \in FileTasks :
          /\ Due(t)
          /\ t.wake_at = Some(now)
          /\ [t EXCEPT !.status = Backlog, !.wake_at = None] \in tasks
    /\ \E t \in FileTasks : t.status = Sleeping /\ ~Due(t) /\ t \in tasks

(***************************************************************************)
(* C7: right after a store is constructed from a file, every Blocked task  *)
(* has a blocker that is present and not Completed.  Fails: TaskList::new  *)
(* runs the wake pass only.                                                *)
(***************************************************************************)
C7_LoadLeavesNoStaleBlocked ==
    phase = "loaded"
       => \A t \in tasks : t.status = Blocked => HasLiveBlocker(t, tasks)

(***************************************************************************)
(* C8: unblock_tasks makes Backlog exactly the Blocked tasks that have no  *)
(* blocker present and not Completed, changes nothing else, and returns    *)
(* their number.                                                           *)
(***************************************************************************)
Stale(t) == t.status = Blocked /\ ~HasLiveBlocker(t, tasks)

C8_UnblockReleasesExactlyStale ==
    [][IsCall("unblock")
          => /\ tasks' = {IF Stale(t) THEN [t EXCEPT !.status = Backlog] ELSE t
                             : t \in tasks}
             /\ lastOp'.ret = Cardinality({t \in tasks : Stale(t)})]_vars

\* X is blocked by Y and Z, Y is Completed, Z is not, and the pass has run
C8_Witness ==
    /\ lastOp.op = "unblock"
    /\ lastOp.ret = 0
    /\ \E x \in tasks : \E y \in tasks : \E z \in tasks :
          /\ x.status = Blocked
          /\ {y.id, z.id} \subseteq Elems(x.blocked_by)
          /\ y.status = Completed
          /\ z.status # Completed

(***************************************************************************)
(* C9: releasing a store and constructing a new one from the same file at  *)
(* the same clock value gives back the released tasks.  Fails: the wake    *)
(* pass of TaskList::new turns the tasks that were Sleeping with           *)
(* wake_at <= now into Backlog.  What holds: the reload gives the released *)
(* tasks with exactly those woken, and panics if a task is Sleeping        *)
(* without wake_at.                                                        *)
(***************************************************************************)
ReloadAtOnce ==
    /\ phase = "closed"
    /\ phase' # "closed"
    /\ file.exists
    /\ released.at = now

\* the claim as made, for every reload that returns
C9_ReloadGivesSameTasks ==
    [][(ReloadAtOnce /\ phase' = "loaded") => tasks' = released.tasks]_vars

C9_ReloadGivesSameTasksButWoken ==
    [][ReloadAtOnce
          => IF \E t \in released.tasks : t.status = Sleeping /\ t.wake_at = None
               THEN phase' = "panicked"
               ELSE /\ phase' = "loaded"
                    /\ tasks' = {IF Due(t)
                                   THEN [t EXCEPT !.status = Backlog,
                                                  !.wake_at = None]
                                   ELSE t : t \in released.tasks}]_vars

\* a store holding an edited task that was Sleeping and due was released and
\* reloaded at the same clock value, and the task came back as Backlog
C9_Witness ==
    /\ phase = "loaded"
    /\ lastOp.op = "new"
    /\ released.at = now
    /\ \E t \in released.tasks :
          /\ Due(t)
          /\ t.summary = "e"
          /\ t \notin tasks
          /\ [t EXCEPT !.status = Backlog, !.wake_at = None] \in tasks

(***************************************************************************)
(* C10: start, complete, suspend, block and edit, when the prefix resolves *)
(* uniquely, replace the resolved task by its updated record and leave     *)
(* every other task as it was; the store then holds the resolved id once.  *)
(* When the call does not apply, the store is unchanged.                   *)
(***************************************************************************)
\* the step is a call of one of the five operations on the task named by
\* prefix (the blockee, for block)
Updates(prefix) ==
    \/ IsCall("start") /\ StartTask(prefix)
    \/ IsCall("complete") /\ CompleteTask(prefix)
    \/ IsCall("suspend") /\ \E duration \in Durations : SuspendTask(prefix, duration)
    \/ IsCall("block") /\ \E other \in Prefixes : BlockTaskOn(prefix, other)
    \/ IsCall("edit") /\ \E updates \in EditorOutputs : EditTask(prefix, updates)

\* u is t with the operation applied
Applied(op, t, u) ==
    /\ u.id = t.id
    /\ u.created_at = t.created_at
    /\ u.priority = t.priority
    /\ op = "start" => u = [t EXCEPT !.status = Active]
    /\ op = "complete" => u = [t EXCEPT !.status = Completed]
    /\ op = "suspend" =>
          /\ u.status = Sleeping
          /\ \E w \in u.wake_at : w >= now
          /\ [u EXCEPT !.status = t.status, !.wake_at = t.wake_at] = t
    /\ op = "block" =>
          /\ u.status = Blocked
          /\ \E b \in tasks :
                Elems(u.blocked_by) = Elems(t.blocked_by) \cup {b.id}
          /\ [u EXCEPT !.status = t.status, !.blocked_by = t.blocked_by] = t
    /\ op = "edit" => u.wake_at = t.wake_at

UpdateOps == {"start", "complete", "suspend", "block", "edit"}

C10_OneTaskReplacedOrNothing ==
    [][(calls' = calls - 1 /\ lastOp'.op \in UpdateOps)
          => IF lastOp'.ret = 1
               THEN \E t \in tasks : \E u \in tasks' :
                       /\ tasks' \ {u} = tasks \ {t}
                       /\ Cardinality({v \in tasks' : v.id = t.id}) = 1
                       /\ Applied(lastOp'.op, t, u)
                       /\ \E prefix \in Prefixes :
                             /\ Hits(prefix) = 1
                             /\ StartsWith(t.id, prefix)
                             /\ Updates(prefix)
               ELSE tasks' = tasks]_vars

\* an edit has changed one of two tasks
C10_Witness ==
    /\ lastOp.op = "edit"
    /\ lastOp.ret = 1
    /\ Cardinality(tasks) = 2
    /\ \E t \in tasks : t.summary = "e" /\ t.status = Completed
    /\ \E t \in tasks : t.summary = "s"

(***************************************************************************)
(* C11: remove_task with a prefix that exactly one task's id starts with   *)
(* removes that task, whatever its status: the store holds one task fewer  *)
(* and every other task is as it was.                                      *)
(***************************************************************************)
C11_RemoveTakesOutTheOneMatch ==
    [][IsCall("remove")
          => \A prefix \in Prefixes :
                (Hits(prefix) = 1 /\ RemoveTask(prefix))
                   => \E t \in tasks :
                         /\ StartsWith(t.id, prefix)
                         /\ tasks' = tasks \ {t}
                         /\ Cardinality(tasks') = Cardinality(tasks) - 1
                         /\ phase' = "running"]_vars

\* a task that another task was blocked on has been removed, and the other
\* task is still there as it was
C11_Witness ==
    /\ lastOp.op = "remove"
    /\ Cardinality(tasks) = 1
    /\ \E t \in tasks :
          /\ t.status = Blocked
          /\ \E b \in Elems(t.blocked_by) : b # t.id

C14_ActiveByCreatedAt ==
    \A i, j \in DOMAIN view :
       (/\ view[i].status = Active
        /\ view[j].status = Active
        /\ view[i].created_at < view[j].created_at) => i < j

\* the older Active task comes first although its priority number is higher
C14_Witness ==
    \E i, j \in DOMAIN view :
       /\ i < j
       /\ view[i].status = Active
       /\ view[j].status = Active
       /\ view[i].created_at < view[j].created_at
       /\ view[i].priority > view[j].priority

(***************************************************************************)
(* C15: of two tasks that are not both Active, the sorted view puts first  *)
(* the one of lower status rank (Active < Backlog < Blocked < Sleeping <   *)
(* Completed), for equal status the one of lower priority number, for      *)
(* equal status and priority the one created earlier.                      *)
(***************************************************************************)
RankInClaim ==
    [s \in TaskStatus |->
        CASE s = Active -> 1 [] s = Backlog -> 2 [] s = Blocked -> 3
          [] s = Sleeping -> 4 [] s = Completed -> 5]

Precedes(a, b) ==
    \/ RankInClaim[a.status] < RankInClaim[b.status]
    \/ /\ a.status = b.status
       /\ a.priority < b.priority
    \/ /\ a.status = b.status
       /\ a.priority = b.priority
       /\ a.created_at < b.created_at

C15_ByStatusPriorityCreatedAt ==
    \A i, j \in DOMAIN view :
       (/\ ~(view[i].status = Active /\ view[j].status = Active)
        /\ Precedes(view[i], view[j])) => i < j

\* a Backlog task of priority 1 comes before a Backlog task of priority 5
\* that was created earlier, and both before a Completed task
C15_Witness ==
    \E i, j, k \in DOMAIN view :
       /\ i < j /\ j < k
       /\ view[i].status = Backlog /\ view[i].priority = 1
       /\ view[j].status = Backlog /\ view[j].priority = 5
       /\ view[j].created_at < view[i].created_at
       /\ view[k].status = Completed

IdsOf(ts) == {t.id : t \in ts}

KeepsCreatedAt(before, after) ==
    \A t \in before : \A u \in after : u.id = t.id => u.created_at = t.created_at

C12_IdsAreStable ==
    [][/\ \A t, u \in tasks' : t.id = u.id => t = u
       /\ (phase \in Open /\ calls' = calls - 1)
             => /\ KeepsCreatedAt(tasks, tasks')
                /\ IF lastOp'.op = "add"
                     THEN \E id \in Ids \ IdsOf(tasks) :
                             IdsOf(tasks') = IdsOf(tasks) \cup {id}
                     ELSE IF lastOp'.op = "remove"
                            THEN \E gone \in SUBSET IdsOf(tasks) :
                                    /\ Cardinality(gone) <= 1
                                    /\ IdsOf(tasks') = IdsOf(tasks) \ gone
                            ELSE IdsOf(tasks') = IdsOf(tasks)
       /\ (phase = "closed" /\ phase' # "closed" /\ file.exists)
             => /\ KeepsCreatedAt(FileTasks, tasks')
                /\ IdsOf(tasks') = IdsOf(FileTasks)]_vars

(***************************************************************************)
(* C20: a task suspended at time t for d > 0 is Sleeping with wake_at =    *)
(* t + d; as long as no operation is applied to it, it stays so through    *)
(* the rest of the session, through the save, and through every load at a  *)
(* clock value below wake_at; a load at a clock value >= wake_at makes it  *)
(* Backlog.  Fails: a load that panics on another Sleeping task without    *)
(* wake_at (see C12) loses it.                                             *)
(***************************************************************************)
\* where the tasks are: in the heap, or in the file between sessions.  A
\* Sleeping task whose wake_at is above the clock, or above the clock of
\* the last save, was suspended for a duration d > 0.
InStore == IF phase = "closed" THEN FileTasks ELSE tasks

C20_SleepsUntilLoadAfterWakeAt ==
    [][/\ (IsCall("suspend") /\ lastOp'.ret = 1)
             => \A prefix \in Prefixes, duration \in Durations :
                   (/\ parse(duration).ok
                    /\ parse(duration).secs > 0
                    /\ SuspendTask(prefix, duration))
                      => \E t \in tasks :
                            /\ StartsWith(t.id, prefix)
                            /\ [t EXCEPT !.status = Sleeping,
                                         !.wake_at = {now + parse(duration).secs}]
                                  \in tasks'
       /\ calls' = calls
             => \A t \in InStore : \A w \in t.wake_at :
                   t.status = Sleeping
                      => IF phase = "closed" /\ phase' # "closed" /\ w <= now
                           THEN released.at < w
                                   => [t EXCEPT !.status = Backlog,
                                                !.wake_at = None] \in InStore'
                           ELSE t \in InStore']_vars


\* ---------------------------------------------------------------------
\* C17, C18, C19: block_task_on
\* ---------------------------------------------------------------------

\* updated is blockee after it was blocked on blocker: the blocker's id is
\* in blocked_by next to every id that was there, the status is Blocked and
\* nothing else differs
BlockedOn(blockee, blocker, updated) ==
    /\ Elems(updated.blocked_by) = Elems(blockee.blocked_by) \cup {blocker.id}
    /\ updated.status = Blocked
    /\ updated = [blockee EXCEPT !.blocked_by = updated.blocked_by,
                                 !.status = Blocked]

\* C17: block(blockee_prefix, blocker_prefix) with two uniquely resolving
\* prefixes adds the blocker's id to the blockee's blocked_by and keeps the
\* ids already there, sets the blockee Blocked whatever it was, leaves the
\* blocker task unchanged and returns 1.
C17_BlockAddsBlocker ==
    [][IsCall("block")
         => \A blockee_id \in Prefixes : Hits(blockee_id) = 1
              => \A blocker_id \in Prefixes : Hits(blocker_id) = 1
                   => (BlockTaskOn(blockee_id, blocker_id)
                         => \E blockee, blocker \in tasks :
                               /\ StartsWith(blockee.id, blockee_id)
                               /\ StartsWith(blocker.id, blocker_id)
                               /\ \E updated \in tasks' :
                                     /\ BlockedOn(blockee, blocker, updated)
                                     /\ tasks' = (tasks \ {blockee})
                                                    \cup {updated}
                               /\ blocker \in tasks'
                               /\ lastOp'.ret = 1
                               /\ phase' = "running")]_vars

\* no id is twice in a blocked_by
NoRepeats(blocked_by) ==
    \A i, j \in 1..Len(blocked_by) :
        i # j => blocked_by[i] # blocked_by[j]

\* C18: after any sequence of block operations, the same blockee blocked on
\* the same blocker more than once included, every task's blocked_by
\* contains each id at most once.
C18_BlockedByHasNoRepeats ==
    \A t \in tasks : NoRepeats(t.blocked_by)

\* a task that block operations gave two blockers, the last one just now
C18_Witness ==
    /\ lastOp.op = "block"
    /\ lastOp.ret = 1
    /\ \E t \in tasks : Len(t.blocked_by) = 2 /\ t.status = Blocked

\* the operations C19 lists
ListedOps == {"add", "remove", "start", "suspend", "complete", "block"}

\* the tasks of a store whose blocked_by contains their own id
SelfBlocked(ts) == {t \in ts : t.id \in Elems(t.blocked_by)}

\* C19: no add, remove, start, suspend, complete or block call, a block
\* whose two prefixes resolve to the same task included, produces a task
\* whose blocked_by contains its own id.
C19_NoTaskBlocksItself ==
    [][(calls' = calls - 1 /\ lastOp'.op \in ListedOps)
         => \A t \in SelfBlocked(tasks') :
               \E before \in SelfBlocked(tasks) : before.id = t.id]_vars



\* ---------------------------------------------------------------------
\* C21, C22: the duration given to suspend_task
\* ---------------------------------------------------------------------

\* the seconds a duration string stands for, as a reader of the string
\* takes it: signed
SignedSeconds(duration) ==
    CASE duration = "0"   -> {0}
      [] duration = "1s"  -> {1}
      [] duration = "-1s" -> {0 - 1}
      [] OTHER            -> {}

NonPositive == {duration \in Durations :
                   \E secs \in SignedSeconds(duration) : secs <= 0}

\* C21: suspend with a zero or negative duration ("0" as the stop command
\* passes, or "-1s") on a uniquely resolving prefix succeeds and leaves the
\* task Sleeping with wake_at <= now, and the next wake pass (of a load or
\* called on the open store) makes every such task Backlog with no wake_at.
C21_ExpiredSleepWakesAtNextPass ==
    [][/\ IsCall("suspend")
          => \A prefix \in Prefixes : Hits(prefix) = 1
               => \A duration \in NonPositive :
                     SuspendTask(prefix, duration)
                        => /\ phase' = "running"
                           /\ lastOp'.ret = 1
                           /\ \E t \in tasks' :
                                 /\ StartsWith(t.id, prefix)
                                 /\ Due(t)'
       /\ (\/ IsCall("wake")
           \/ phase = "closed" /\ phase' # "closed")
          => \A t \in InStore :
                Due(t) => /\ phase' \in Open
                          /\ [t EXCEPT !.status = Backlog, !.wake_at = None]
                                \in tasks']_vars



\* the duration strings that stand for no number of seconds
Malformed == {duration \in Durations : SignedSeconds(duration) = {}}

\* C22: suspend_task with a duration string that does not parse is a failed
\* operation and no more: the addressed task keeps its status and wake_at,
\* no other task changes, and the session goes on (to its normal save).
C22_BadDurationFailsQuietly ==
    [][IsCall("suspend")
          => \A prefix \in Prefixes : Hits(prefix) = 1
               => \A duration \in Malformed :
                     SuspendTask(prefix, duration)
                        => /\ tasks' = tasks
                           /\ phase' = "running"]_vars

\* ---------------------------------------------------------------------
\* C23, C24: what the editor hands back
\* ---------------------------------------------------------------------

\* the task that an edit of t with the payload stores: the payload's
\* mutable fields under t's id and created_at
Edited(t, payload) ==
    [payload EXCEPT !.id = t.id, !.created_at = t.created_at]

\* C23: for every payload that parses as a task, one with another id or
\* created_at included, edit completes and the stored task has the original
\* id and created_at and the payload's mutable fields.
C23_EditTakesPayloadKeepsIdentity ==
    [][IsCall("edit")
          => \A prefix \in Prefixes : Hits(prefix) = 1
               => \A updates \in EditorOutputs \ {Unparsable} :
                     EditTask(prefix, updates)
                        => /\ phase' = "running"
                           /\ lastOp'.ret = 1
                           /\ \E t \in tasks :
                                 /\ StartsWith(t.id, prefix)
                                 /\ tasks' = (tasks \ {t})
                                                \cup {Edited(t, updates.task)}]_vars

\* C24: when the editor's text does not parse as a task, edit does not fail
\* and the stored task is afterwards what it was, in every field.
C24_GarbageEditKeepsTask ==
    [][IsCall("edit")
          => \A prefix \in Prefixes : Hits(prefix) = 1
               => (EditTask(prefix, Unparsable)
                     => /\ tasks' = tasks
                        /\ phase' = "running"
                        /\ lastOp'.ret = 1)]_vars

\* after an edit that returned 1, the only task of the store is blocked on
\* itself: no payload that parses carries that blocked_by, so the editor's
\* text was garbage and the task is as it was
C24_Witness ==
    /\ lastOp.op = "edit"
    /\ lastOp.ret = 1
    /\ phase = "running"
    /\ \E t \in tasks :
          /\ tasks = {t}
          /\ t.id # [i \in 1..IdLen |-> 1]
          /\ t.blocked_by = <<t.id>>
          /\ t.status = Blocked



\* ---------------------------------------------------------------------
\* C25: the first run
\* ---------------------------------------------------------------------

\* there is no file at db_path, or none that reads as a task list
Unreadable == ~file.exists \/ file.fault # "none"

\* C25: constructing a store on a path whose file is missing or cannot be
\* read gives an empty store and does not fail; a list or an add that
\* follows succeeds; the process exits with status 0 and the release of the
\* store writes the file.
C25_FirstRunStartsEmptyAndSaves ==
    [][Unreadable
         => /\ (phase = "closed" /\ phase' # "closed")
                  => phase' = "loaded" /\ tasks' = {}
            /\ (lastOp'.op \in {"list", "add"} /\ calls' = calls - 1)
                  => phase' = "running"
            /\ (phase \in Open /\ phase' = "closed")
                  => /\ lastOp'.ret = 0
                     /\ file'.exists
                     /\ file'.fault = "none"
                     /\ FileTasks' = tasks]_vars



\* ---------------------------------------------------------------------
\* C26: two invocations on one backing file
\* ---------------------------------------------------------------------

\* C26: whatever the two invocations did and in whatever order, a save
\* leaves in the file exactly the tasks the saving invocation has in memory:
\* what the other invocation saved since this one loaded, and this one
\* never saw, is no longer in the file.
C26_LastSaverWins ==
    [][(phase # "closed" /\ phase' = "closed" /\ lastOp'.op = "drop")
          => /\ FileTasks' = tasks
             /\ \A t \in FileTasks : t.id \notin IdsOf(tasks)
                                        => t.id \notin IdsOf(FileTasks')]_vars

\* both invocations are over, one store call was made in all, this
\* invocation saved last and never had the task that the other one added
\* and saved: the file does not have it
C26_Witness ==
    /\ lastOp.op = "drop"
    /\ phase = "closed"
    /\ peer.phase = "closed"
    /\ calls = MaxRaceCalls - 1
    /\ released.tasks = {}
    /\ peer.released.tasks # {}
    /\ FileTasks = {}
    /\ file.exists



\* ---------------------------------------------------------------------
\* C27, C28: the two passes
\* ---------------------------------------------------------------------

\* C27: unblock_tasks run twice in a row with no mutation in between: the
\* second run changes no task and returns 0.
C27_UnblockTwiceIsUnblockOnce ==
    [][(lastOp.op = "unblock" /\ IsCall("unblock"))
          => /\ tasks' = tasks
             /\ lastOp'.ret = 0]_vars

\* three calls were made: the blocker was completed, the first pass released
\* the blockee and the second pass found nothing to release
C27_Witness ==
    /\ lastOp.op = "unblock"
    /\ lastOp.ret = 0
    /\ calls = MaxUnblockCalls - 3
    /\ Cardinality(tasks) = 3
    /\ \E x \in tasks :
          /\ x.id = BlockeeId
          /\ x.status = Backlog
          /\ Len(x.blocked_by) = 1
          /\ \E y \in tasks : y.id = x.blocked_by[1] /\ y.status = Completed



\* C28: on a loaded store and at one clock value, wake_tasks followed by
\* unblock_tasks gives the store and the two counts that unblock_tasks
\* followed by wake_tasks gives.
C28_PassesCommute ==
    phase = "loaded"
       => LET woken == wake_tasks(tasks, now)
              unblocked == unblock_tasks(tasks)
              woken_unblocked == unblock_tasks(woken.tasks)
              unblocked_woken == wake_tasks(unblocked.tasks, now)
          IN  /\ ~woken.panic
              /\ ~unblocked_woken.panic
              /\ woken_unblocked.tasks = unblocked_woken.tasks
              /\ woken.ret = unblocked_woken.ret
              /\ unblocked.ret = woken_unblocked.ret

\* a loaded store in which each pass has something to do
C28_Witness ==
    /\ phase = "loaded"
    /\ \E t \in tasks : Due(t)
    /\ \E t \in tasks : Stale(t)
    /\ wake_tasks(tasks, now).ret = 1
    /\ unblock_tasks(tasks).ret = 1



\* ---------------------------------------------------------------------
\* C29: the add command
\* ---------------------------------------------------------------------

\* the words of the names with one space between two names
RECURSIVE SpaceSeparated(_)
SpaceSeparated(names) ==
    IF Len(names) = 1 THEN names[1]
    ELSE SpaceSeparated(SubSeq(names, 1, Len(names) - 1))
            \o <<" ">> \o names[Len(names)]

HasSpace(name) == " " \in {name[i] : i \in 1..Len(name)}

\* "New task #N" for a count N <= 9
NewTaskNumber(n) ==
    <<"N", "e", "w", " ", "t", "a", "s", "k", " ", "#",
      <<"1", "2", "3", "4", "5", "6", "7", "8", "9">>[n]>>

\* C29: add with k >= 2 names none of which has a space creates one task
\* named by the names joined with single spaces; with k >= 2 names one of
\* which has a space, k tasks, one per name; with one name, one task; with
\* no name, one task named "New task #N", N the task count before plus one.
C29_AddCommandTaskCount ==
    [][IsCall("process_add")
          => \A names \in NameLists, is_interrupt \in BOOLEAN :
                ProcessAdd(names, is_interrupt)
                   => LET added == tasks' \ tasks
                          k == Len(names)
                          one(summary) ==
                              /\ Cardinality(added) = 1
                              /\ \A t \in added : t.summary = summary
                      IN  /\ tasks \subseteq tasks'
                          /\ k = 0 => one(NewTaskNumber(Cardinality(tasks) + 1))
                          /\ k = 1 => one(names[1])
                          /\ (k >= 2 /\ \A i \in 1..k : ~HasSpace(names[i]))
                                => one(SpaceSeparated(names))
                          /\ (k >= 2 /\ \E i \in 1..k : HasSpace(names[i]))
                                => /\ Cardinality(added) = k
                                   /\ \E f \in [1..k -> added] :
                                         /\ \A i, j \in 1..k :
                                               i # j => f[i] # f[j]
                                         /\ \A i \in 1..k :
                                               f[i].summary = names[i]]_vars

\* a store to which one add command gave one task for two one-word names
\* and a second add command gave the default name with the count 2
C29_Witness ==
    /\ lastOp.op = "process_add"
    /\ Cardinality(tasks) = 2
    /\ \E t \in tasks : t.summary = <<"a", " ", "a">>
    /\ \E t \in tasks :
          t.summary = <<"N", "e", "w", " ", "t", "a", "s", "k", " ", "#", "2">>



-----------------------------------------------------------------------------
\* C30: simple_duration::parse

\* the seconds of the units the grammar names
UnitSeconds ==
    [u \in {"s", "m", "h", "d", "w"} |->
        CASE u = "s" -> 1 [] u = "m" -> 60 [] u = "h" -> 3600
          [] u = "d" -> 86400 [] u = "w" -> 604800]

RECURSIVE ComponentsFrom(_, _, _)
\* reads s from position i on as components <number><unit> with spaces
\* only between components; total is the sum of the components read so far
ComponentsFrom(s, i, total) ==
    LET d == run_end(s, i, Digits)
    IN  IF d = i \/ d > Len(s) \/ s[d] \notin DOMAIN UnitSeconds
        THEN [wf |-> FALSE, total |-> total]
        ELSE LET sum == add(total,
                            mul(to_number(SubSeq(s, i, d - 1)),
                                UnitSeconds[s[d]]))
                 k == run_end(s, d + 1, {" "})
             IN  IF d = Len(s) THEN [wf |-> TRUE, total |-> sum]
                 ELSE IF k > Len(s) THEN [wf |-> FALSE, total |-> sum]
                 ELSE ComponentsFrom(s, k, sum)

StartsWithMinus(s) == Len(s) > 0 /\ s[1] = "-"

\* how s reads as a string of components after its optional '-'
Reading(s) == ComponentsFrom(s, IF StartsWithMinus(s) THEN 2 ELSE 1, <<0>>)

\* C30: once parse has been called on a string made of components
\* <number><unit>, unit in {s, m, h, d, w}, optionally separated by
\* spaces, what it returned is Ok of the sum of number times the unit's
\* seconds, negative when the string starts with '-' (and the sum is not
\* zero); called on "0" it returned Ok of 0 seconds.
C30_ParseSumsComponents ==
    parsed.result.kind # "none" =>
        /\ parsed.input = <<"0">> => parsed.result = OkSeconds(FALSE, <<0>>)
        /\ Reading(parsed.input).wf =>
              parsed.result = OkSeconds(StartsWithMinus(parsed.input),
                                        Reading(parsed.input).total)


-----------------------------------------------------------------------------
\* C31: the strings simple_duration::parse refuses

RECURSIVE UnitsFrom(_, _, _)
\* reads s from position i on as components of a number and the letters
\* after it (none, for a number with no unit), with spaces only between
\* components; units are the letters of the components read so far
UnitsFrom(s, i, units) ==
    LET d == run_end(s, i, Digits)
        e == run_end(s, d, Letters)
        k == run_end(s, e, {" "})
        read == Append(units, SubSeq(s, d, e - 1))
    IN  IF d = i THEN [wf |-> FALSE, units |-> units]
        ELSE IF e > Len(s) THEN [wf |-> TRUE, units |-> read]
        ELSE IF k > Len(s) \/ k = e THEN [wf |-> FALSE, units |-> read]
        ELSE UnitsFrom(s, k, read)

UnitsRead(s) == UnitsFrom(s, IF StartsWithMinus(s) THEN 2 ELSE 1, <<>>)

\* s has a component with no unit or with a unit other than s, m, h, d, w
HasBadUnit(s) ==
    /\ UnitsRead(s).wf
    /\ \E i \in 1..Len(UnitsRead(s).units) :
          \A u \in DOMAIN UnitSeconds : UnitsRead(s).units[i] # <<u>>

\* C31: once parse has been called on the empty string, on a number with
\* no unit other than the string "0", or on a string with a component whose
\* unit is not one of s, m, h, d, w, what it returned is a ParseError: not
\* a duration and not a panic.
C31_RefusedStringsGiveParseError ==
    (/\ parsed.result.kind # "none"
     /\ parsed.input # <<"0">>
     /\ parsed.input = <<>> \/ HasBadUnit(parsed.input))
        => parsed.result = ParseError


-----------------------------------------------------------------------------
\* C32..C36: the commands run with no task id

\* a step of the command op
Ran(op) == calls' = calls - 1 /\ lastOp'.op = op

\* the commands that default to the first Active task
OnActive == {"process_complete", "process_edit", "process_sleep",
             "process_stop"}

\* the command changed no task, reported 0 and returned
NothingDone == tasks' = tasks /\ lastOp'.ret = 0 /\ phase' = "running"

FirstActive(t) ==
    /\ t \in retain(tasks, Active)
    /\ \A other \in retain(tasks, Active) : t.created_at <= other.created_at

\* the step replaced t by u and left every other task as it was
OnlyChanged(t, u) == u.id = t.id /\ tasks' = (tasks \ {t}) \cup {u}

\* what the command op makes of its task
Outcome(op, u) ==
    CASE op = "process_complete" -> u.status = Completed
      [] op \in {"process_sleep", "process_stop"} ->
             u.status = Sleeping /\ u.wake_at # None
      [] OTHER -> TRUE

\* C33: complete, edit, sleep and stop with no task id, on a store with an
\* Active task, act on exactly one task, an Active task with the earliest
\* created_at: they return 1, that task is completed, edited or put to
\* sleep, and no other task changes.
C33_DefaultIsFirstActive ==
    [][\A op \in OnActive :
          Ran(op) /\ retain(tasks, Active) # {} =>
             /\ lastOp'.ret = 1
             /\ phase' = "running"
             /\ \E t \in tasks, u \in tasks' :
                   FirstActive(t) /\ OnlyChanged(t, u) /\ Outcome(op, u)]_vars


\* t is a Backlog task with the lowest priority number and, among those,
\* the earliest created_at
FirstBacklog(t) ==
    /\ t \in retain(tasks, Backlog)
    /\ \A other \in retain(tasks, Backlog) :
          \/ t.priority < other.priority
          \/ t.priority = other.priority /\ t.created_at <= other.created_at

\* C34: start with no task id changes nothing when some task is Active;
\* when none is, it sets to Active one Backlog task, one with the lowest
\* priority number and then the earliest created_at, and leaves every
\* other task unchanged.
C34_StartTakesFirstBacklog ==
    [][Ran("process_start") =>
          /\ retain(tasks, Active) # {} => tasks' = tasks
          /\ retain(tasks, Active) = {} /\ retain(tasks, Backlog) # {} =>
                \E t \in tasks :
                   /\ FirstBacklog(t)
                   /\ OnlyChanged(t, [t EXCEPT !.status = Active])]_vars

\* start has taken a Backlog task of a lower priority number over an
\* older Backlog task
C34_Witness ==
    /\ lastOp.op = "process_start"
    /\ lastOp.ret = 1
    /\ \E a \in retain(tasks, Active), b \in retain(tasks, Backlog) :
          a.priority < b.priority /\ a.created_at > b.created_at


\* b comes strictly after a in the store order
SortsAfter(a, b) ==
    IF a.status = Active /\ b.status = Active
      THEN a.created_at < b.created_at
      ELSE Precedes(a, b)

\* C35: del with no task id on a store that holds tasks removes exactly
\* one task, one that no other task sorts after, reports 1 and leaves
\* every other task unchanged.
C35_DelRemovesLast ==
    [][Ran("process_del") /\ tasks # {} =>
          /\ lastOp'.ret = 1
          /\ phase' = "running"
          /\ \E t \in tasks :
                /\ \A other \in tasks : ~SortsAfter(t, other)
                /\ tasks' = tasks \ {t}]_vars

\* del has taken one of three tasks and an Active task is among the two
\* that stay
C35_Witness ==
    /\ lastOp.op = "process_del"
    /\ lastOp.ret = 1
    /\ Cardinality(tasks) = 2
    /\ retain(tasks, Active) # {}


\* C36: show with no task id (and a run with no subcommand) leaves the
\* store unchanged when some task is Active; when none is, it starts the
\* first Backlog task and changes nothing else, so that after it returns on
\* a store with an Active or a Backlog task some task is Active; list never
\* changes a task.
C36_ShowStartsListReadsOnly ==
    [][/\ Ran("process_show") =>
             /\ phase' = "running"
             /\ retain(tasks, Active) # {} => tasks' = tasks
             /\ retain(tasks, Active) = {} /\ retain(tasks, Backlog) # {} =>
                   \E t \in tasks :
                      /\ FirstBacklog(t)
                      /\ OnlyChanged(t, [t EXCEPT !.status = Active])
             /\ retain(tasks, Active) = {} /\ retain(tasks, Backlog) = {} =>
                   tasks' = tasks
             /\ retain(tasks, Active) \cup retain(tasks, Backlog) # {} =>
                   retain(tasks', Active) # {}
       /\ Ran("process_list") => tasks' = tasks /\ phase' = "running"]_vars

\* show has returned with an Active task in the store, and the file that
\* was loaded holds the same tasks with none of them Active
C36_Witness ==
    /\ lastOp.op = "process_show"
    /\ lastOp.ret = 1
    /\ retain(tasks, Active) # {}
    /\ retain(FileTasks, Active) = {}
    /\ IdsOf(FileTasks) = IdsOf(tasks)
    /\ Cardinality(tasks) > 1


-----------------------------------------------------------------------------
\* C37: TaskList::new on a file that parses loses no task: the store that
\* comes out of it holds every id the file holds, and so does the file
\* after that store is released at once or after the load has panicked and
\* the unwinding has dropped the TaskList.
C37_LoadLosesNoTask ==
    [][/\ (lastOp'.op = "new" /\ phase = "closed" /\ phase' = "loaded")
             => IdsOf(FileTasks) \subseteq IdsOf(tasks')
       /\ (lastOp.op = "new" /\ lastOp'.op = "drop")
             => IdsOf(FileTasks) \subseteq IdsOf(FileTasks')]_vars


-----------------------------------------------------------------------------
\* C38: when the file exists and is not a task array, and the session has
\* called nothing that changes the store (it has loaded and, at most,
\* listed), the release leaves the file as it was.
C38_GarbledFileIsKept ==
    [][(/\ file.exists
        /\ file.fault = "garbled"
        /\ phase \in Open
        /\ tasks = {}
        /\ lastOp.op \in {"new", "list"}
        /\ lastOp'.op = "drop")
          => file' = file]_vars

=============================================================================
